---- MODULE Spec2Model ----
(***************************************************************************)
(* A model of true-shuffle.js: the weighted selector, the two histories,   *)
(* the playlist cache, the skip/back handlers with their suspension        *)
(* points, the songchange listener and the deferred timers, together with  *)
(* the player they drive (current track, context, shuffle flag, volume).   *)
(*                                                                         *)
(* JavaScript runs one task at a time: one action is one task, i.e. the    *)
(* code from an entry point (or from the resumption of an await that       *)
(* really suspends) to the next suspension.  An await on a value that is   *)
(* already there resumes in a microtask, before any other task, so it does *)
(* not end the action.                                                     *)
(***************************************************************************)
EXTENDS Integers, Sequences, FiniteSets, TLC

\* ---------------------------------------------------------------- bounds
\* CONFIG.HISTORY_SIZE (500 in the source) and CONFIG.NO_REPEAT_WINDOW (100 in
\* the source), scaled down; the model keeps HISTORY_SIZE > NO_REPEAT_WINDOW.
HISTORY_SIZE == 3
NO_REPEAT_WINDOW == 2
\* User-side stimuli (context starts, skip/back presses, toggles, track ends).
MaxStimuli == 3
\* Skip and back presses when the user does nothing else.
MaxPresses == 4
\* Presses when the user lets each one settle.
MaxSettled == 5
\* Handlers suspended on an await at the same time.
MaxHandlers == 2
\* Outstanding setTimeout callbacks.
MaxTimers == 3
\* Undelivered songchange events.
MaxEvents == 2
\* The volume the user has set.
UserVolume == 1
\* Presses and context starts when the user does nothing else.
MaxSwitches == 4
\* Presses and context starts on the runtime that keeps going.
MaxNative == 3
\* Tracks in a list handed to pickNextTrack on its own, and entries in a
\* history handed to it.
MaxList == 3
MaxEntries == 3

\* ------------------------------------------------------ program constants
TRUE_SHUFFLE_EVERY == 3
ARTIST_SPACING == 2
MaxAttempts == 3

NULL == "null"

\* The playlists the player can be asked for, by context uri.  "p1" holds
\* more playable tracks than NO_REPEAT_WINDOW; "p2" shares a track with it.
Contexts == {"p1", "p2"}
Playlist(c) == IF c = "p1" THEN <<"a", "b", "c">> ELSE <<"c", "d">>
Tracks == {"a", "b", "c", "d"}
\* item.artists[0].uri / metadata.artist_uri of a track
ArtistOf(t) == IF t \in {"a", "b"} THEN "x" ELSE IF t = "c" THEN "y" ELSE NULL

Range(s) == {s[i] : i \in 1..Len(s)}
Min(a, b) == IF a < b THEN a ELSE b
\* Array.prototype.slice(0, n): a negative n counts from the end
Slice0(s, n) ==
    IF n < 0 THEN SubSeq(s, 1, Len(s) + n)
    ELSE SubSeq(s, 1, Min(n, Len(s)))
\* Array.prototype.unshift
Unshift(s, e) == <<e>> \o s
\* Array.prototype.filter
RECURSIVE Filter(_, _)
Filter(s, keep) ==
    IF s = <<>> THEN <<>>
    ELSE (IF Head(s) \in keep THEN <<Head(s)>> ELSE <<>>) \o Filter(Tail(s), keep)

Entry(t) == [uri |-> t, artistUri |-> ArtistOf(t)]
Uris(h) == [i \in 1..Len(h) |-> h[i].uri]

VARIABLES
    \* the extension's state (true-shuffle.js lines 23-45, 364)
    playHistory, navigationHistory, navigationIndex,
    currentPlaylistUri, currentPlaylistTracks,
    isActive, skipCounter, isNativePassSkip,
    isHandlingAction, lastPlayedByUsUri,
    savedVolume, smoothSkipMuted,
    lastContextUri,
    \* the player
    pItem, pContext, pShuffle, pVolume,
    \* the event loop
    events, timers, handlers, preloads,
    \* history variables: they record the run and steer nothing the code does
    stimuli, prompt, played, reached, step

vars == <<playHistory, navigationHistory, navigationIndex,
          currentPlaylistUri, currentPlaylistTracks,
          isActive, skipCounter, isNativePassSkip,
          isHandlingAction, lastPlayedByUsUri,
          savedVolume, smoothSkipMuted, lastContextUri,
          pItem, pContext, pShuffle, pVolume,
          events, timers, handlers, preloads,
          stimuli, prompt, played, reached, step>>

\* The histories a request finds when it starts
Found(nav, idx, ph) == [nav |-> nav, idx |-> idx, ph |-> ph]
NoEntry == Found(<<>>, -1, <<>>)
Enters(s) ==
    [s EXCEPT !.step.entry = Found(s.navigationHistory, s.navigationIndex, s.playHistory)]

\* The whole state as one record, so that the sequential code of a handler
\* reads as a composition of functions on it; Commit writes a result back.
State ==
    [playHistory |-> playHistory, navigationHistory |-> navigationHistory,
     navigationIndex |-> navigationIndex,
     currentPlaylistUri |-> currentPlaylistUri,
     currentPlaylistTracks |-> currentPlaylistTracks,
     isActive |-> isActive, skipCounter |-> skipCounter,
     isNativePassSkip |-> isNativePassSkip,
     isHandlingAction |-> isHandlingAction,
     lastPlayedByUsUri |-> lastPlayedByUsUri,
     savedVolume |-> savedVolume, smoothSkipMuted |-> smoothSkipMuted,
     lastContextUri |-> lastContextUri,
     pItem |-> pItem, pContext |-> pContext, pShuffle |-> pShuffle,
     pVolume |-> pVolume,
     events |-> events, timers |-> timers, handlers |-> handlers,
     preloads |-> preloads,
     stimuli |-> stimuli, prompt |-> prompt, played |-> played,
     reached |-> reached, step |-> [step EXCEPT !.cut = 0]]

Commit(r) ==
    /\ playHistory' = r.playHistory
    /\ navigationHistory' = r.navigationHistory
    /\ navigationIndex' = r.navigationIndex
    /\ currentPlaylistUri' = r.currentPlaylistUri
    /\ currentPlaylistTracks' = r.currentPlaylistTracks
    /\ isActive' = r.isActive
    /\ skipCounter' = r.skipCounter
    /\ isNativePassSkip' = r.isNativePassSkip
    /\ isHandlingAction' = r.isHandlingAction
    /\ lastPlayedByUsUri' = r.lastPlayedByUsUri
    /\ savedVolume' = r.savedVolume
    /\ smoothSkipMuted' = r.smoothSkipMuted
    /\ lastContextUri' = r.lastContextUri
    /\ pItem' = r.pItem
    /\ pContext' = r.pContext
    /\ pShuffle' = r.pShuffle
    /\ pVolume' = r.pVolume
    /\ events' = r.events
    /\ timers' = r.timers
    /\ handlers' = r.handlers
    /\ preloads' = r.preloads
    /\ stimuli' = r.stimuli
    /\ prompt' = r.prompt
    /\ played' = r.played
    /\ reached' = r.reached
    /\ step' = r.step

\* What the last action did: op names the path the code took, track the track
\* it concerned, recent the NO_REPEAT_WINDOW most recent distinct tracks that
\* had played in the context before it, cadence how the action came to the
\* skip counter of line 252 ("tail": the request found the cursor at the
\* tail, "rollback": its replay failed, "none": it did not get there).
\* reached counts, since the listener last reset the histories, the requests
\* that came to line 252: all of them (any) and those that found the cursor
\* at the tail (tail).  cut is the number of entries after the cursor that a
\* pushToNavigation of the action discarded.  entry is what the latest
\* request that got past the guard found when it started.
DidC(s, op, t, cad) ==
    [s EXCEPT !.step = [op |-> op, track |-> t, cadence |-> cad, resumed |-> "none",
                        recent |-> Range(Slice0(s.played, NO_REPEAT_WINDOW)),
                        cut |-> s.step.cut, entry |-> s.step.entry]]
\* resumed: the await the action resumed from, if it resumed a handler
Resumed(s, pc) == [s EXCEPT !.step.resumed = pc]
Did(s, op, t) == DidC(s, op, t, "none")

\* ---------------------------------------------------------------- helpers

getContextUri(s) == s.pContext

isPlaylistUri(c) == c \in Contexts

isInTrueShuffleMode(s) ==
    s.isActive /\ s.pShuffle /\ isPlaylistUri(getContextUri(s))

\* ------------------------------------------------------ weighted selector

\* A window one entry short of the source's
recentUrisOneShort(history) == Range(Uris(Slice0(history, NO_REPEAT_WINDOW - 1)))

\* The uris of history.slice(0, NO_REPEAT_WINDOW): the set pickNextTrack builds
\* at lines 87-89 and the listener builds again at lines 381-383
recentUris(history) == Range(Uris(Slice0(history, NO_REPEAT_WINDOW)))

\* Weights are counted in hundredths: CONFIG.MIN_WEIGHT 0.05 and
\* CONFIG.ARTIST_PENALTY 0.15.
MIN_WEIGHT == 5
ARTIST_PENALTY == 15
Max(a, b) == IF a > b THEN a ELSE b

\* history.findIndex(h => h.uri === uri), 0-based, -1 when absent
findIndex(history, uri) ==
    LET hits == {i \in 1..Len(history) : history[i].uri = uri}
    IN  IF hits = {} THEN -1 ELSE (CHOOSE i \in hits : \A j \in hits : i <= j) - 1

\* 1 - Math.exp(-CONFIG.RECENCY_DECAY_RATE * recencyIndex) in hundredths,
\* rounded down, for the indexes a history of the model can have
recencyFactor(recencyIndex) ==
    CASE recencyIndex = 0 -> 0
      [] recencyIndex = 1 -> 13
      [] recencyIndex = 2 -> 25
      [] recencyIndex = 3 -> 36
      [] recencyIndex = 4 -> 45
      [] recencyIndex = 5 -> 52
      [] recencyIndex = 6 -> 59
      [] recencyIndex = 7 -> 65
      [] recencyIndex = 8 -> 69
      [] OTHER -> 74

\* history.slice(0, CONFIG.ARTIST_SPACING).map(h => h.artistUri)
recentArtists(history) ==
    {history[i].artistUri : i \in 1..Min(ARTIST_SPACING, Len(history))}

calculateWeight(track, history) ==
    LET recencyIndex == findIndex(history, track)
        w1 == IF recencyIndex # -1
              THEN (100 * Max(MIN_WEIGHT, recencyFactor(recencyIndex))) \div 100
              ELSE 100
        w2 == IF ArtistOf(track) # NULL /\ ArtistOf(track) \in recentArtists(history)
              THEN (w1 * ARTIST_PENALTY) \div 100
              ELSE w1
    IN  Max(MIN_WEIGHT, w2)

\* The loop of lines 105-108 from entry k on, and the fallback of line 110
RECURSIVE Draw(_, _, _)
Draw(weighted, k, random) ==
    IF k = Len(weighted) THEN weighted[k].track
    ELSE LET left == random - weighted[k].weight
         IN  IF left <= 0 THEN weighted[k].track
             ELSE Draw(weighted, k + 1, left)

\* weighted.reduce((sum, w) => sum + w.weight, 0), from entry k on
RECURSIVE totalWeight(_, _)
totalWeight(weighted, k) ==
    IF k > Len(weighted) THEN 0
    ELSE weighted[k].weight + totalWeight(weighted, k + 1)

\* tracks.filter(t => !recentUris.has(t.uri))
RECURSIVE Outside(_, _)
Outside(tracks, recent) ==
    IF tracks = <<>> THEN <<>>
    ELSE (IF Head(tracks) \in recent THEN <<>> ELSE <<Head(tracks)>>)
         \o Outside(Tail(tracks), recent)

\* The tracks pickNextTrack can return: tracks is the cache (<<>> for null,
\* <<list>> for a list).  Math.random() * totalWeight ranges over the reals of
\* [0, totalWeight); with whole weights every real of (k - 1, k] stops the
\* loop where k does, so the whole numbers 0..totalWeight stand for them all.
pickNextTrack(tracks, history) ==
    IF tracks = <<>> \/ Len(tracks[1]) = 0 THEN {}
    ELSE IF Len(tracks[1]) = 1 THEN {tracks[1][1]}
    ELSE LET filtered == Outside(tracks[1], recentUris(history))
             candidates == IF Len(filtered) = 0 THEN tracks[1] ELSE filtered
             weighted == [i \in 1..Len(candidates) |->
                             [track |-> candidates[i],
                              weight |-> calculateWeight(candidates[i], history)]]
         IN  {Draw(weighted, 1, random) : random \in 0..totalWeight(weighted, 1)}

\* ------------------------------------------------------ history management

recordCurrentTrack(s) ==
    IF s.pItem = NULL THEN s
    ELSE LET kept == Filter(s.playHistory,
                            {e \in Range(s.playHistory) : e.uri # s.pItem})
             h == Unshift(kept, Entry(s.pItem))
         IN  [s EXCEPT !.playHistory =
                 IF Len(h) > HISTORY_SIZE THEN Slice0(h, HISTORY_SIZE) ELSE h]

\* An append that keeps the entries after the cursor
pushToNavigationKeepForward(s, uri) ==
    IF uri = NULL THEN s
    ELSE [s EXCEPT !.navigationHistory = Append(@, uri),
                   !.navigationIndex = Len(s.navigationHistory)]

pushToNavigation(s, uri) ==
    IF uri = NULL THEN s
    ELSE LET cut == IF s.navigationIndex < Len(s.navigationHistory) - 1
                    THEN Slice0(s.navigationHistory, s.navigationIndex + 1)
                    ELSE s.navigationHistory
             nav == Append(cut, uri)
             s1 == [s EXCEPT !.step.cut = Len(s.navigationHistory) - Len(cut)]
         IN  IF Len(nav) > HISTORY_SIZE
             THEN [s1 EXCEPT !.navigationHistory =
                                 SubSeq(nav, Len(nav) - HISTORY_SIZE + 1, Len(nav)),
                             !.navigationIndex = HISTORY_SIZE - 1]
             ELSE [s1 EXCEPT !.navigationHistory = nav,
                             !.navigationIndex = Len(nav) - 1]

\* A failed-attempt insert at the far end of the play history
recordFailedAttemptAtEnd(s, t) ==
    [s EXCEPT !.playHistory = Append(@, Entry(t))]

\* The failed-attempt insert of handleSkipForward (line 273)
recordFailedAttempt(s, t) ==
    [s EXCEPT !.playHistory = Unshift(@, Entry(t))]

\* ------------------------------------------------------------ mute/restore

muteForSkip(s) ==
    LET s1 == IF ~s.smoothSkipMuted
              THEN [s EXCEPT !.savedVolume = <<s.pVolume>>, !.smoothSkipMuted = TRUE]
              ELSE s
    IN  [s1 EXCEPT !.pVolume = 0]

restoreVolume(s) ==
    IF s.smoothSkipMuted /\ s.savedVolume # <<>>
    THEN [s EXCEPT !.pVolume = s.savedVolume[1], !.smoothSkipMuted = FALSE,
                   !.savedVolume = <<>>]
    ELSE s

\* ------------------------------------------------------------- the player

\* The player starts track t in context c and announces it (songchange).
PlayerStarts(s, c, t) ==
    [s EXCEPT !.pItem = t, !.pContext = c,
              !.events = @ + 1,
              !.played = IF c # s.pContext THEN <<t>>
                         ELSE Unshift(Filter(@, Range(@) \ {t}), t)]

\* setTimeout: the 1500 ms guard release fires after everything outstanding;
\* a 50 ms native skip fires after the native skips already set at position
\* at (any number of older guard releases may be due before it).
LastNative(q) ==
    LET ns == {i \in 1..Len(q) : q[i] = "native"}
    IN  IF ns = {} THEN 0 ELSE CHOOSE i \in ns : \A j \in ns : j <= i
setGuardTimer(s) == [s EXCEPT !.timers = Append(@, "guard")]
setNativeTimer(s, at) ==
    [s EXCEPT !.timers = SubSeq(@, 1, at) \o <<"native">> \o SubSeq(@, at + 1, Len(@))]
NativeSlots(s) == LastNative(s.timers)..Len(s.timers)

Suspend(s, h) == [s EXCEPT !.handlers = Append(@, h)]

\* --------------------------------------------------------- handleSkipForward

\* A suspended handler: pc is the await it stands at ("load": line 153,
\* "replay": line 242, "pick": line 266, "back": line 291), ctx the contextUri
\* the awaited call captured, uri its track, attempt the loop counter of line
\* 262.
Handler(pc, ctx, uri, attempt) ==
    [pc |-> pc, ctx |-> ctx, uri |-> uri, attempt |-> attempt]

\* finally { setTimeout(() => { isHandlingAction = false; }, 1500); }
Finally(s) == setGuardTimer(s)

\* Lines 262-274 from the top of the loop; the results are the states at the
\* next suspension or at the return.
RECURSIVE PickLoop(_, _, _)
PickLoop(s, attempt, cad) ==
    IF attempt >= MaxAttempts THEN {DidC(Finally(s), "gaveup", NULL, cad)}
    ELSE LET next == pickNextTrack(s.currentPlaylistTracks, s.playHistory)
         IN  IF next = {} THEN {DidC(Finally(s), "nopick", NULL, cad)}
             ELSE UNION {
                 IF getContextUri(s) = NULL
                 THEN PickLoop(recordFailedAttempt(s, t), attempt + 1, cad)
                 ELSE {DidC(Suspend([s EXCEPT !.lastPlayedByUsUri = t],
                                    Handler("pick", getContextUri(s), t, attempt)),
                            "pick.wait", t, cad)}
                 : t \in next}

\* A cadence that picks one request early
TakesPickOffByOne(n) == n % TRUE_SHUFFLE_EVERY = TRUE_SHUFFLE_EVERY - 1

\* Lines 250-274: the skip counter, then native pass-through or the pick loop
TakesPick(n) == n % TRUE_SHUFFLE_EVERY = 0
Cadence(s, cad) ==
    LET s1 == [s EXCEPT !.skipCounter = @ + 1,
                        !.reached.any = @ + 1,
                        !.reached.tail = IF cad = "tail" THEN @ + 1 ELSE @]
    IN  IF ~TakesPick(s1.skipCounter)
        THEN {DidC(Finally(setNativeTimer(
                       muteForSkip([s1 EXCEPT !.isNativePassSkip = TRUE,
                                              !.isHandlingAction = FALSE]), at)),
                   "native", NULL, cad)
              : at \in NativeSlots(s1)}
        ELSE PickLoop(s1, 0, cad)

\* A replay of the entry the cursor has just left
ReplayEntryBehind(s) == s.navigationHistory[s.navigationIndex]

\* const nextUri = navigationHistory[navigationIndex] (line 241, 0-based)
ReplayEntry(s) == s.navigationHistory[s.navigationIndex + 1]

\* Lines 236-248: record the current track, then replay or go on to the cadence
AfterLoad(s) ==
    LET s1 == recordCurrentTrack(s)
    IN  IF s1.navigationIndex < Len(s1.navigationHistory) - 1
        THEN LET s2 == [s1 EXCEPT !.navigationIndex = @ + 1]
                 nextUri == ReplayEntry(s2)
             IN  IF getContextUri(s2) = NULL
                 THEN Cadence([s2 EXCEPT !.navigationIndex = @ - 1], "rollback")
                 ELSE {Did(Suspend([s2 EXCEPT !.lastPlayedByUsUri = nextUri],
                                   Handler("replay", getContextUri(s2), nextUri, 0)),
                           "replay.wait", nextUri)}
        ELSE Cadence(s1, "tail")

\* Lines 228-234 and ensurePlaylistLoaded up to its await
handleSkipForward(s) ==
    IF s.isHandlingAction THEN {Did(s, "dropped", NULL)}
    ELSE LET s1 == Enters([s EXCEPT !.isHandlingAction = TRUE])
             contextUri == getContextUri(s1)
         IN  IF contextUri = NULL THEN {Did(Finally(s1), "load.failed", NULL)}
             ELSE IF contextUri # s1.currentPlaylistUri \/ s1.currentPlaylistTracks = <<>>
             THEN {Did(Suspend([s1 EXCEPT !.currentPlaylistUri = contextUri],
                               Handler("load", contextUri, NULL, 0)),
                       "load.wait", NULL)}
             ELSE IF Len(s1.currentPlaylistTracks[1]) > 0 THEN AfterLoad(s1)
             ELSE {Did(Finally(s1), "load.failed", NULL)}

\* ------------------------------------------------------------ handleSkipBack

handleSkipBack(s) ==
    IF s.isHandlingAction THEN Did(s, "dropped", NULL)
    ELSE LET s1 == Enters([s EXCEPT !.isHandlingAction = TRUE])
         IN  IF s1.navigationIndex > 0
             THEN LET s2 == [s1 EXCEPT !.navigationIndex = @ - 1]
                      prevUri == s2.navigationHistory[s2.navigationIndex + 1]
                  IN  IF getContextUri(s2) = NULL
                      THEN Did(Finally(s2), "back.failed", prevUri)
                      ELSE Did(Suspend([s2 EXCEPT !.lastPlayedByUsUri = prevUri],
                                       Handler("back", getContextUri(s2), prevUri, 0)),
                               "back.wait", prevUri)
             ELSE Did(Finally(s1), "back.seek", NULL)

\* ------------------------------------------------------ the native player

\* The player's own skip primitives (origPlayerNext, origSkipToNextFn,
\* origPlayerBack, origSkipToPrev): with a context, it moves to another track
\* of the context and announces it; which one is the player's choice.
NativeTargets(s) ==
    IF s.pContext = NULL THEN {}
    ELSE IF Range(Playlist(s.pContext)) \ {s.pItem} = {} THEN Range(Playlist(s.pContext))
    ELSE Range(Playlist(s.pContext)) \ {s.pItem}
NativeSkip(s) ==
    IF NativeTargets(s) = {} THEN {s}
    ELSE {PlayerStarts(s, s.pContext, t) : t \in NativeTargets(s)}

\* ------------------------------------------------------------ wrappers

\* Spicetify.Player.next (lines 306-313)
WrappedPlayerNext(s) ==
    IF isInTrueShuffleMode(s) THEN handleSkipForward(muteForSkip(s))
    ELSE {Did(r, "native.direct", r.pItem) : r \in NativeSkip(s)}

\* Spicetify.Player.back (lines 316-322)
WrappedPlayerBack(s) ==
    IF isInTrueShuffleMode(s) THEN {handleSkipBack(s)}
    ELSE {Did(r, "native.direct", r.pItem) : r \in NativeSkip(s)}

\* Spicetify.Platform.PlayerAPI.skipToNext (lines 327-336)
WrappedSkipToNext(s) ==
    IF s.isHandlingAction THEN {Did(s, "blocked", NULL)}
    ELSE IF isInTrueShuffleMode(s) THEN handleSkipForward(muteForSkip(s))
    ELSE {Did(r, "native.direct", r.pItem) : r \in NativeSkip(s)}

\* Spicetify.Platform.PlayerAPI.skipToPrevious (lines 341-349)
WrappedSkipToPrevious(s) ==
    IF s.isHandlingAction THEN {Did(s, "blocked", NULL)}
    ELSE IF isInTrueShuffleMode(s) THEN {handleSkipBack(s)}
    ELSE {Did(r, "native.direct", r.pItem) : r \in NativeSkip(s)}

\* ------------------------------------------------------- songchange listener

songchange(s, wasNearEnd) ==
    LET currentUri == s.pItem
        contextUri == getContextUri(s)
    IN  IF s.isHandlingAction THEN {Did(s, "sc.ignored", currentUri)}
        ELSE IF s.isNativePassSkip
        THEN LET s1 == [s EXCEPT !.isNativePassSkip = FALSE]
             IN  IF currentUri = NULL THEN {Did(s1, "sc.nouri", NULL)}
                 ELSE IF currentUri \in recentUris(s1.playHistory)
                 THEN {Did(setNativeTimer(
                               muteForSkip([s1 EXCEPT !.isNativePassSkip = TRUE]), at),
                           "sc.reissue", currentUri)
                       : at \in NativeSlots(s1)}
                 ELSE {Did(restoreVolume(recordCurrentTrack(
                               pushToNavigation(s1, currentUri))),
                           "sc.accepted", currentUri)}
        ELSE IF currentUri # NULL /\ currentUri = s.lastPlayedByUsUri
        THEN {Did([s EXCEPT !.lastPlayedByUsUri = NULL], "sc.byus", currentUri)}
        ELSE IF contextUri # s.lastContextUri
        THEN LET s1 == [s EXCEPT !.lastContextUri = contextUri,
                                 !.currentPlaylistUri = NULL,
                                 !.currentPlaylistTracks = <<>>,
                                 !.skipCounter = 0,
                                 !.playHistory = <<>>,
                                 !.navigationHistory = <<>>,
                                 !.navigationIndex = -1,
                                 !.reached = [tail |-> 0, any |-> 0]]
                 s2 == pushToNavigation(s1, currentUri)
             IN  {Did(IF isPlaylistUri(contextUri)
                      THEN [s2 EXCEPT !.preloads = Append(@, contextUri)]
                      ELSE s2,
                      "sc.context", currentUri)}
        ELSE IF ~isInTrueShuffleMode(s) THEN {Did(s, "sc.inactive", currentUri)}
        ELSE IF wasNearEnd /\ s.stimuli > 0
        THEN handleSkipForward([s EXCEPT !.stimuli = @ - 1])
        ELSE {Did(s, "sc.left", currentUri)}

\* ------------------------------------------------------------ resumptions

RemoveAt(q, i) == SubSeq(q, 1, i - 1) \o SubSeq(q, i + 1, Len(q))

\* ensurePlaylistLoaded after its await (lines 153-155), then line 234 on:
\* tracks is what loadPlaylistTracks resolved to (<<>> for null).
loadResumes(s, tracks) ==
    LET s1 == [s EXCEPT !.currentPlaylistTracks = tracks]
    IN  IF tracks # <<>> /\ Len(tracks[1]) > 0 THEN AfterLoad(s1)
        ELSE {Did(Finally(s1), "load.failed", NULL)}

\* playTrackInContext after its await (lines 200-207) and the code after the
\* call: lines 243-248 (replay), 267-273 (pick), the end of handleSkipBack.
playResumes(s, h, ok) ==
    IF ok
    THEN LET s1 == restoreVolume(s)
         IN  IF h.pc = "replay" THEN {Did(Finally(s1), "replay.ok", h.uri)}
             ELSE IF h.pc = "pick"
             THEN {Did(Finally(pushToNavigation(s1, h.uri)), "pick.ok", h.uri)}
             ELSE {Did(Finally(s1), "back.ok", h.uri)}
    ELSE LET s1 == restoreVolume([s EXCEPT !.lastPlayedByUsUri = NULL])
         IN  IF h.pc = "replay"
             THEN Cadence([s1 EXCEPT !.navigationIndex = @ - 1], "rollback")
             ELSE IF h.pc = "pick"
             THEN PickLoop(recordFailedAttempt(s1, h.uri), h.attempt + 1, "none")
             ELSE {Did(Finally(s1), "back.failed", h.uri)}

\* PlayerAPI.play({uri: contextUri}, {}, {skipTo: {uri: trackUri}}) can start
\* the track only if the context holds it.
CanPlay(c, t) == t \in Range(Playlist(c))

\* ----------------------------------------------------------------- actions

Bounded(r) ==
    /\ Len(r.handlers) <= MaxHandlers
    /\ Len(r.timers) <= MaxTimers
    /\ Len(r.preloads) <= MaxHandlers
    /\ r.events <= MaxEvents

Stimulus(s) == [s EXCEPT !.stimuli = @ - 1]

\* With prompt set, the player's songchange reaches the listener before
\* anything else happens (a timer, a resolved promise, another press);
\* without it an announced change can wait behind any of them.
Ready == prompt => events = 0

InitWith(budget, promptEvents) ==
    /\ playHistory = <<>>
    /\ navigationHistory = <<>>
    /\ navigationIndex = -1
    /\ currentPlaylistUri = NULL
    /\ currentPlaylistTracks = <<>>
    /\ isActive = TRUE
    /\ skipCounter = 0
    /\ isNativePassSkip = FALSE
    /\ isHandlingAction = FALSE
    /\ lastPlayedByUsUri = NULL
    /\ savedVolume = <<>>
    /\ smoothSkipMuted = FALSE
    /\ lastContextUri = NULL
    /\ pItem = "a"
    /\ pContext = "p1"
    /\ pShuffle = TRUE
    /\ pVolume = UserVolume
    /\ events = 0
    /\ timers = <<>>
    /\ handlers = <<>>
    /\ preloads = <<>>
    /\ stimuli = budget
    /\ prompt = promptEvents
    /\ played = <<"a">>
    /\ reached = [tail |-> 0, any |-> 0]
    /\ step = [op |-> "init", track |-> NULL, cadence |-> "none", resumed |-> "none",
               recent |-> {}, cut |-> 0, entry |-> NoEntry]

\* The user starts track t of another context c.
StartContext ==
    /\ stimuli > 0 /\ Ready
    /\ \E c \in Contexts \ {pContext} : \E t \in Range(Playlist(c)) :
         LET r == Did(PlayerStarts(Stimulus(State), c, t), "start", t)
         IN  Bounded(r) /\ Commit(r)

\* The player moves to another track of the context on its own: the track
\* ended, or a change the wrappers did not see.
TrackChanges ==
    /\ stimuli > 0 /\ Ready
    /\ pContext # NULL
    /\ \E t \in Range(Playlist(pContext)) \ {pItem} :
         LET r == Did(PlayerStarts(Stimulus(State), pContext, t), "advance", t)
         IN  Bounded(r) /\ Commit(r)

PlayerNext ==
    /\ stimuli > 0 /\ Ready
    /\ \E r \in WrappedPlayerNext(Stimulus(State)) : Bounded(r) /\ Commit(r)

PlayerBack ==
    /\ stimuli > 0 /\ Ready
    /\ \E r \in WrappedPlayerBack(Stimulus(State)) : Bounded(r) /\ Commit(r)

ApiSkipToNext ==
    /\ stimuli > 0 /\ Ready
    /\ \E r \in WrappedSkipToNext(Stimulus(State)) : Bounded(r) /\ Commit(r)

ApiSkipToPrevious ==
    /\ stimuli > 0 /\ Ready
    /\ \E r \in WrappedSkipToPrevious(Stimulus(State)) : Bounded(r) /\ Commit(r)

\* The topbar button (lines 457-461)
Toggle ==
    /\ stimuli > 0 /\ Ready
    /\ Commit(Did([Stimulus(State) EXCEPT !.isActive = ~@], "toggle", NULL))

\* The user switches the player's shuffle mode.
SetShuffle ==
    /\ stimuli > 0 /\ Ready
    /\ Commit(Did([Stimulus(State) EXCEPT !.pShuffle = ~@], "shuffle", NULL))

\* The songchange listener runs for one announced track change.  wasNearEnd
\* (line 436) is computed from lastProgress and lastDuration, which the
\* setInterval of lines 353-358 samples once a second: the last sample was
\* within 5000 ms of the end of a track or it was not, whatever the change
\* (a track that ended, a skip pressed in a track's last seconds, a seek).
DeliverSongchange ==
    /\ events > 0
    /\ \E wasNearEnd \in BOOLEAN :
         \E r \in songchange([State EXCEPT !.events = @ - 1], wasNearEnd) :
             Bounded(r) /\ Commit(r)

\* The earliest timer fires.
FireGuardTimer ==
    /\ Ready /\ timers # <<>> /\ Head(timers) = "guard"
    /\ Commit(Did([State EXCEPT !.timers = Tail(@), !.isHandlingAction = FALSE],
                  "guard.released", NULL))

FireNativeTimer ==
    /\ Ready /\ timers # <<>> /\ Head(timers) = "native"
    /\ \E r \in NativeSkip([State EXCEPT !.timers = Tail(@)]) :
         LET r1 == Did(r, "native.fired", r.pItem)
         IN  Bounded(r1) /\ Commit(r1)

\* loadPlaylistTracks of a suspended ensurePlaylistLoaded resolves.
LoadDone ==
    \E i \in 1..Len(handlers) : \E ok \in BOOLEAN :
        /\ Ready /\ handlers[i].pc = "load"
        /\ \E r \in loadResumes([State EXCEPT !.handlers = RemoveAt(@, i)],
                                IF ok THEN <<Playlist(handlers[i].ctx)>> ELSE <<>>) :
             Bounded(r) /\ Commit(Resumed(r, "load"))

\* PlayerAPI.play of a suspended playTrackInContext resolves: the player has
\* started the track.
PlayOk ==
    \E i \in 1..Len(handlers) :
        /\ Ready /\ handlers[i].pc \in {"replay", "pick", "back"}
        /\ CanPlay(handlers[i].ctx, handlers[i].uri)
        /\ \E r0 \in playResumes([State EXCEPT !.handlers = RemoveAt(@, i)],
                                 handlers[i], TRUE) :
             LET r == PlayerStarts(r0, handlers[i].ctx, handlers[i].uri)
             IN  Bounded(r) /\ Commit(Resumed(r, handlers[i].pc))

\* PlayerAPI.play rejects.
PlayFails ==
    \E i \in 1..Len(handlers) :
        /\ Ready /\ handlers[i].pc \in {"replay", "pick", "back"}
        /\ \E r \in playResumes([State EXCEPT !.handlers = RemoveAt(@, i)],
                                handlers[i], FALSE) :
             Bounded(r) /\ Commit(Resumed(r, handlers[i].pc))

\* The pre-load of lines 422-427 resolves.
PreloadDone ==
    \E i \in 1..Len(preloads) : \E ok \in BOOLEAN :
        LET s1 == [State EXCEPT !.preloads = RemoveAt(@, i)]
        IN  Ready /\ Commit(Did(IF ok
                       THEN [s1 EXCEPT !.currentPlaylistUri = preloads[i],
                                       !.currentPlaylistTracks = <<Playlist(preloads[i])>>]
                       ELSE s1,
                       "preload", NULL))

Init == InitWith(MaxStimuli, FALSE)

Next ==
    \/ StartContext \/ TrackChanges
    \/ PlayerNext \/ PlayerBack \/ ApiSkipToNext \/ ApiSkipToPrevious
    \/ Toggle \/ SetShuffle
    \/ DeliverSongchange \/ FireGuardTimer \/ FireNativeTimer
    \/ LoadDone \/ PlayOk \/ PlayFails \/ PreloadDone

Spec == Init /\ [][Next]_vars

\* The same program with the user only pressing skip and back.
InitPresses == InitWith(MaxPresses, TRUE)
NextPresses ==
    \/ ApiSkipToNext \/ ApiSkipToPrevious
    \/ DeliverSongchange \/ FireGuardTimer \/ FireNativeTimer
    \/ LoadDone \/ PlayOk \/ PlayFails
SpecPresses == InitPresses /\ [][NextPresses]_vars

\* The same again with a user who presses only once the last press has
\* settled: no handler suspended, no timer outstanding, no songchange under
\* way.
Settled == handlers = <<>> /\ timers = <<>> /\ events = 0
SettledSkipToNext == Settled /\ ApiSkipToNext
SettledSkipToPrevious == Settled /\ ApiSkipToPrevious
InitSettled == InitWith(MaxSettled, TRUE)
NextSettled ==
    \/ SettledSkipToNext \/ SettledSkipToPrevious
    \/ DeliverSongchange \/ FireGuardTimer \/ FireNativeTimer
    \/ LoadDone \/ PlayOk \/ PlayFails
SpecSettled == InitSettled /\ [][NextSettled]_vars

\* A user who presses skip and back and starts other playlists, with every
\* songchange delivered at once.
InitContexts == InitWith(MaxSwitches, TRUE)
NextContexts ==
    \/ StartContext \/ ApiSkipToNext \/ ApiSkipToPrevious
    \/ DeliverSongchange \/ FireGuardTimer \/ FireNativeTimer
    \/ LoadDone \/ PlayOk \/ PlayFails \/ PreloadDone
SpecContexts == InitContexts /\ [][NextContexts]_vars

\* A user who presses and starts playlists only when nothing is outstanding,
\* on a runtime that keeps going: a timer that is due fires, a songchange
\* that is pending is delivered, a promise that is pending settles.
SettledStartContext == Settled /\ StartContext
InitNative == InitWith(MaxNative, TRUE)
NextNative ==
    \/ SettledSkipToNext \/ SettledSkipToPrevious \/ SettledStartContext
    \/ DeliverSongchange \/ FireGuardTimer \/ FireNativeTimer
    \/ LoadDone \/ PlayOk \/ PlayFails \/ PreloadDone
SpecNative ==
    /\ InitNative /\ [][NextNative]_vars
    /\ WF_vars(DeliverSongchange)
    /\ WF_vars(FireGuardTimer) /\ WF_vars(FireNativeTimer)
    /\ WF_vars(LoadDone) /\ WF_vars(PlayOk \/ PlayFails)
    /\ WF_vars(PreloadDone)

\* pickNextTrack on its own: any track list and any history, one call.
SeqsUpTo(S, n) == UNION {[1..k -> S] : k \in 0..n}
InitPick ==
    /\ playHistory \in SeqsUpTo({Entry(t) : t \in Tracks}, MaxEntries)
    /\ currentPlaylistTracks \in {<<l>> : l \in SeqsUpTo(Tracks, MaxList)}
    /\ navigationHistory = <<>>
    /\ navigationIndex = -1
    /\ currentPlaylistUri = "p1"
    /\ isActive = TRUE
    /\ skipCounter = 0
    /\ isNativePassSkip = FALSE
    /\ isHandlingAction = FALSE
    /\ lastPlayedByUsUri = NULL
    /\ savedVolume = <<>>
    /\ smoothSkipMuted = FALSE
    /\ lastContextUri = NULL
    /\ pItem = NULL
    /\ pContext = "p1"
    /\ pShuffle = TRUE
    /\ pVolume = UserVolume
    /\ events = 0
    /\ timers = <<>>
    /\ handlers = <<>>
    /\ preloads = <<>>
    /\ stimuli = 1
    /\ prompt = TRUE
    /\ played = <<>>
    /\ reached = [tail |-> 0, any |-> 0]
    /\ step = [op |-> "init", track |-> NULL, cadence |-> "none", resumed |-> "none",
               recent |-> {}, cut |-> 0, entry |-> NoEntry]

\* const nextTrack = pickNextTrack(currentPlaylistTracks, playHistory)
CallPickNextTrack ==
    /\ step.op = "init"
    /\ LET next == pickNextTrack(currentPlaylistTracks, playHistory)
       IN  IF next = {} THEN Commit(Did(State, "picked", NULL))
           ELSE \E t \in next : Commit(Did(State, "picked", t))

NextPick == CallPickNextTrack
SpecPick == InitPick /\ [][NextPick]_vars

\* ------------------------------------------------------------------ claims

\* The steps that confirm a track playing
Confirms == {"pick.ok", "replay.ok", "back.ok", "sc.accepted"}

\* C1: in a context whose playlist holds more playable tracks than
\* NO_REPEAT_WINDOW, the track a True-Shuffle pick starts is none of the
\* NO_REPEAT_WINDOW most recent distinct tracks that played in the context.
C1_PickOutsidePlayedWindow ==
    (step.op = "pick.ok" /\ Len(Playlist(pContext)) > NO_REPEAT_WINDOW)
        => step.track \notin step.recent

C3_RequestInFlightIsDropped ==
    [][(handlers # <<>> /\ stimuli' # stimuli)
           => /\ handlers' = handlers
              /\ UNCHANGED <<playHistory, navigationHistory, navigationIndex,
                             skipCounter>>]_vars

\* C4: once a forward skip has muted the output, the volume comes back only
\* in a step that confirms a track playing (a play command of the core
\* succeeded, or a native pick was accepted).
C4_MutedUntilConfirmed ==
    [][(smoothSkipMuted /\ pVolume = 0 /\ pVolume' # 0)
           => step'.op \in Confirms]_vars

\* C5: in every quiescent state (no handler in flight, no native pass-through
\* pending, no timer outstanding) the output is not muted: the flag is clear,
\* no volume is saved and the volume is the user's.
C5_QuiescentIsUnmuted ==
    (handlers = <<>> /\ ~isNativePassSkip /\ timers = <<>>)
        => (~smoothSkipMuted /\ savedVolume = <<>> /\ pVolume = UserVolume)

\* The step delivers a songchange to the listener.
Delivered == events' = events - 1
\* The step is a forward or back press of the user.
Pressed == stimuli' # stimuli /\ step'.op \notin {"toggle", "shuffle", "start", "advance"}
               /\ ~Delivered

\* C6: while the toggle is off every forward or back press reaches the
\* player's own skip primitive, and a songchange makes the core issue no play
\* command, no native skip and no volume change.
C6_InactiveIsNative ==
    [][~isActive
           => /\ Pressed => step'.op = "native.direct"
              /\ Delivered => UNCHANGED <<timers, handlers, pVolume>>]_vars

\* t lies in the first NO_REPEAT_WINDOW entries of the play history.
InWindow(t) ==
    \E i \in 1..Len(playHistory) : i <= NO_REPEAT_WINDOW /\ playHistory[i].uri = t
\* The native skips scheduled in timer queue q
NativeTimers(q) == Cardinality({i \in 1..Len(q) : q[i] = "native"})

\* C7: with a native pass-through pending, a songchange for a
\* track inside the window re-issues the native skip with the flag set and
\* the histories unchanged; one for a track outside it appends the track to
\* the navigation history, records it and restores the volume; until then
\* the output stays muted.
C7_NativeValidation ==
    [][/\ (Delivered /\ isNativePassSkip /\ InWindow(pItem))
           => /\ NativeTimers(timers') = NativeTimers(timers) + 1
              /\ isNativePassSkip' /\ pVolume' = 0
              /\ UNCHANGED <<playHistory, navigationHistory, navigationIndex>>
       /\ (Delivered /\ isNativePassSkip /\ ~InWindow(pItem))
           => /\ ~isNativePassSkip'
              /\ navigationHistory' # <<>>
              /\ navigationHistory'[Len(navigationHistory')] = pItem
              /\ navigationIndex' = Len(navigationHistory') - 1
              /\ playHistory' # <<>> /\ playHistory'[1].uri = pItem
              /\ pVolume' = UserVolume /\ ~smoothSkipMuted'
       /\ (isNativePassSkip /\ pVolume = 0 /\ pVolume' # 0)
           => step'.op = "sc.accepted"]_vars

\* C8: the play history holds each track identity at most once.
C8_PlayHistoryHasNoDuplicates ==
    \A i, j \in 1..Len(playHistory) :
        playHistory[i].uri = playHistory[j].uri => i = j

\* C9: the play history and the navigation history each hold at most
\* HISTORY_SIZE entries.
C9_HistoriesBounded ==
    /\ Len(playHistory) <= HISTORY_SIZE
    /\ Len(navigationHistory) <= HISTORY_SIZE

\* C10: the cursor is -1 when the navigation history is empty and a valid
\* index into it otherwise.
C10_CursorValid ==
    IF navigationHistory = <<>> THEN navigationIndex = -1
    ELSE navigationIndex \in 0..(Len(navigationHistory) - 1)

\* The tracks of the list handed to pickNextTrack
Offered == Range(currentPlaylistTracks[1])

\* C11: for a non-empty track list pickNextTrack returns a track of the list,
\* and one outside the first NO_REPEAT_WINDOW history entries whenever the
\* list holds one; a track inside the window comes back only when every
\* track of the list is inside it.
C11_PickIsCandidateOutsideWindow ==
    (step.op = "picked" /\ Offered # {})
        => /\ step.track \in Offered
           /\ (\E t \in Offered : ~InWindow(t)) => ~InWindow(step.track)

\* C11, its case: the list holds tracks inside the window and outside it.
C11_PickedPastTheWindow ==
    /\ step.op = "picked" /\ step.track \in Offered
    /\ \E t \in Offered : InWindow(t)
    /\ \E t \in Offered : ~InWindow(t)

\* The artists of the ARTIST_SPACING most recent history entries
SpacedArtists ==
    {playHistory[i].artistUri :
         i \in {j \in 1..Len(playHistory) : j <= ARTIST_SPACING}} \ {NULL}

\* C12: when the list offers a track outside the window by another artist,
\* the pick is not by the artist of either of the ARTIST_SPACING most recent
\* history entries.
C12_PickKeepsArtistSpacing ==
    (/\ step.op = "picked" /\ Offered # {}
     /\ \E t \in Offered : ~InWindow(t) /\ ArtistOf(t) \notin SpacedArtists)
        => ArtistOf(step.track) \notin SpacedArtists

\* C13 as stated: a forward skip that finds the cursor below the tail plays
\* the entry at cursor + 1 with the navigation sequence and the skip counter
\* unchanged and no native skip; when the play succeeds the cursor stays one
\* further; the selector or the native pass-through is used only with the
\* cursor at the tail.
C13_ReplayBelowTail ==
    [][/\ step'.op = "replay.wait"
           => /\ navigationIndex < Len(navigationHistory) - 1
              /\ step'.track = navigationHistory[navigationIndex + 2]
              /\ navigationIndex' = navigationIndex + 1
              /\ UNCHANGED <<navigationHistory, skipCounter>>
              /\ NativeTimers(timers') = NativeTimers(timers)
       /\ step'.op = "replay.ok"
           => /\ pItem' = step'.track
              /\ UNCHANGED <<navigationHistory, navigationIndex, skipCounter>>
              /\ NativeTimers(timers') = NativeTimers(timers)
       /\ step'.cadence # "none"
           => navigationIndex' >= Len(navigationHistory') - 1]_vars

\* C13 as amended: the same, but the selector or the native pass-through is
\* also used by the request whose replay failed and rolled the cursor back.
C13_ReplayBelowTailOrFallThrough ==
    [][/\ step'.op = "replay.wait"
           => /\ navigationIndex < Len(navigationHistory) - 1
              /\ step'.track = navigationHistory[navigationIndex + 2]
              /\ navigationIndex' = navigationIndex + 1
              /\ UNCHANGED <<navigationHistory, skipCounter>>
              /\ NativeTimers(timers') = NativeTimers(timers)
       /\ step'.op = "replay.ok"
           => /\ pItem' = step'.track
              /\ UNCHANGED <<navigationHistory, navigationIndex, skipCounter>>
              /\ NativeTimers(timers') = NativeTimers(timers)
       /\ step'.cadence # "none"
           => \/ navigationIndex' >= Len(navigationHistory') - 1
              \/ /\ step'.resumed = "replay"
                 /\ navigationIndex' = navigationIndex - 1]_vars

\* C13, its case: a replay has succeeded and the cursor stands on the track
\* that plays, with the tail beyond or at it.
C13_ReplaySucceeded ==
    /\ step.op = "replay.ok" /\ navigationIndex > 0
    /\ navigationHistory[navigationIndex + 1] = pItem

\* The steps that append a track to the navigation history
Appends == {"pick.ok", "sc.accepted", "sc.context"}

\* C14: when a step appends a track to the navigation history, the appended
\* track is the last entry and the cursor points at it, and with the cursor
\* below the tail before the step nothing that stood after the cursor
\* survives: the entries before the appended one are a tail end of the
\* entries up to the cursor.
C14_AppendDiscardsForwardEntries ==
    [][step'.op \in Appends
           => /\ navigationHistory' # <<>>
              /\ navigationHistory'[Len(navigationHistory')] = step'.track
              /\ navigationIndex' = Len(navigationHistory') - 1
              /\ navigationIndex < Len(navigationHistory) - 1
                   => LET kept == SubSeq(navigationHistory, 1, navigationIndex + 1)
                          front == SubSeq(navigationHistory', 1,
                                          Len(navigationHistory') - 1)
                      IN  \E k \in 0..Len(kept) :
                              front = SubSeq(kept, k + 1, Len(kept))]_vars

\* C14, its case: an own pick or an accepted native pick was appended with
\* entries standing after the cursor, which are gone.
C14_AppendedBelowTail ==
    /\ step.op \in {"pick.ok", "sc.accepted"} /\ step.cut > 0
    /\ navigationHistory[Len(navigationHistory)] = step.track
    /\ navigationIndex = Len(navigationHistory) - 1

\* The navigation history holds a track that has not played in the current
\* context: it is left from the context before.
StaleNavigation == ~(Range(navigationHistory) \subseteq Range(played))

\* C15: after a change of the context the listener's reset comes before any
\* later forward or back request is handled: no press that is handled finds
\* navigation entries of the context before. The reset clears the play
\* history, the skip counter and the playlist cache, seeds the navigation
\* history with the track now playing at cursor 0, and leaves the toggle.
C15_ResetBeforeNextRequest ==
    [][/\ (Pressed /\ step'.op \notin {"dropped", "blocked"}) => ~StaleNavigation
       /\ step'.op = "sc.context"
            => /\ playHistory' = <<>> /\ skipCounter' = 0
               /\ currentPlaylistTracks' = <<>>
               /\ navigationHistory' = <<pItem'>> /\ navigationIndex' = 0
               /\ isActive' = isActive]_vars

\* The step resumes the pick handler h after its play command failed.
PickFailed(h) ==
    /\ h.pc = "pick" /\ step'.resumed = "pick"
    /\ step'.op \in {"pick.wait", "gaveup", "nopick"}

\* C16: one forward request makes at most MaxAttempts pick attempts; a failed
\* attempt on T puts T at the front of the play history, and the retry of the
\* same request does not choose T when another track of the playlist lies
\* outside the no-repeat window; after the last failure the request ends with
\* the guard release alone: no play command, no native skip, no track change.
C16_FailedPickRetries ==
    [][\A i \in 1..Len(handlers) :
          PickFailed(handlers[i])
            => LET T == handlers[i].uri
                   n == handlers[i].attempt
                   rest == RemoveAt(handlers, i)
               IN  /\ n < MaxAttempts
                   /\ playHistory' # <<>> /\ playHistory'[1].uri = T
                   /\ step'.op = "pick.wait"
                        => /\ n + 1 < MaxAttempts
                           /\ handlers' = Append(rest,
                                   Handler("pick", getContextUri(State), step'.track, n + 1))
                           /\ (Offered \ (recentUris(playHistory') \cup {T}) # {})
                                => step'.track # T
                   /\ step'.op = "gaveup"
                        => /\ n + 1 = MaxAttempts
                           /\ handlers' = rest
                           /\ timers' = Append(timers, "guard")
                           /\ pItem' = pItem /\ events' = events]_vars

\* C16, its case: a request gave up after three failed attempts, the last
\* two on different tracks.
C16_GaveUpAfterThree ==
    /\ step.op = "gaveup" /\ step.resumed = "pick" /\ handlers = <<>>
    /\ Len(playHistory) >= MaxAttempts
    /\ playHistory[1].uri # playHistory[2].uri

\* The ends of a request in which no play command succeeded: playlist
\* unavailable, all pick attempts failed, back-skip play failed, and the
\* replay that failed before the request went on to the skip counter.
Fruitless ==
    \/ step.op \in {"load.failed", "gaveup", "nopick", "back.failed"}
    \/ step.cadence = "rollback"

\* C17: a forward or back request in which no play command succeeds leaves
\* the navigation history and the cursor as the request found them, and the
\* play history is what it found with nothing but failed-attempt entries put
\* in front.
C17_FruitlessRequestKeepsHistories ==
    Fruitless
        => /\ navigationHistory = step.entry.nav
           /\ navigationIndex = step.entry.idx
           /\ \E k \in 0..MaxAttempts :
                  /\ Len(playHistory) = Len(step.entry.ph) + k
                  /\ SubSeq(playHistory, k + 1, Len(playHistory)) = step.entry.ph

\* The step delivers the songchange of a track that ended on its own, the
\* only one outstanding, and the listener takes it as an auto-advance and
\* gets as far as recording a track (line 236).
AutoAdvanceRecords ==
    /\ step.op = "advance" /\ events = 1
    /\ Delivered /\ stimuli' # stimuli
    /\ step'.op \notin {"load.wait", "load.failed"}

\* C18: a track that played is recorded into the play history for that play
\* before the next selection; on an end-of-track auto-advance the track
\* recorded, the new front of the play history, is the one that has just
\* finished playing.
C18_AutoAdvanceRecordsFinishedTrack ==
    [][AutoAdvanceRecords
           => /\ playHistory' # <<>>
              /\ playHistory'[1].uri = played[2]]_vars

\* C19: the caused-by-us marker and the pending-native marker live for one
\* pending operation only: with no handler in flight, no timer outstanding
\* and no songchange undelivered, both are clear.
C19_MarkersClearWhenQuiescent ==
    Settled => (lastPlayedByUsUri = NULL /\ ~isNativePassSkip)

\* C20: every play command issued for a pick names a track of the playlist
\* of the context the command plays it in: the cache the pick was drawn from
\* is the list of the context current when playTrackInContext reads it.
C20_PickIsInContextOfCommand ==
    \A i \in 1..Len(handlers) :
        handlers[i].pc = "pick" => CanPlay(handlers[i].ctx, handlers[i].uri)

\* C21: every native pass-through terminates: once a forward request has
\* taken the native path, with the player answering every native skip by a
\* songchange, the listener re-issues the skip a bounded number of times
\* only, and a state follows where a track has been accepted, the
\* pending-native flag is clear and the volume is restored.
C21_NativePassThroughTerminates ==
    (step.op = "native")
        ~> (step.op = "sc.accepted" /\ ~isNativePassSkip /\ pVolume = UserVolume)

====
